---- MODULE Spec2Model ----
(***************************************************************************)
(* A model of icp-analysis: load_data.py (CSV ingestion into the SQLite    *)
(* store cell_data.db) and app.py (the three startup queries, their        *)
(* reshaping, and the frequency-table filter callback).                    *)
(*                                                                         *)
(* Texts of the CSV file are modelled as they are read by csv.DictReader:  *)
(* identifier-like fields are strings, numeric fields are sequences of     *)
(* one-character strings that int() parses.  NULL stands for Python None   *)
(* and SQL NULL.                                                           *)
(***************************************************************************)
EXTENDS Integers, Sequences, FiniteSets, TLC

VARIABLES
    csv,            \* content of cell-count.csv: the sequence of data rows
    pc,             \* position of load_data.main: idle, load, done, aborted
    i,              \* index of the next row load_csv reads
    subjects_seen,  \* load_csv's set of subject keys already inserted
    subjects,       \* subjects table as seen by the open connection
    samples,        \* samples table as seen by the open connection
    db,             \* committed content of cell_data.db, or Absent
    reported,       \* main printed "Database saved to ..."
    rerun,          \* store left by the previous completed run of the same input
    app,            \* the analysis process app.py: down, up, replied, failed
    queries,        \* calls of query() made by the running analysis process
    calls,          \* calls of update_freq_table served by that process
    freq_df,        \* cached result of build_frequency_df
    part3_plot_df,  \* cached long table of build_stat_data
    part3_stat_df,  \* cached per-population rows of build_stat_data
    subset,         \* cached results of build_subset_data
    request,        \* filter values of the last update_freq_table call
    reply           \* what that call returned

loader == <<csv, pc, i, subjects_seen, subjects, samples, db, reported, rerun>>
cache == <<freq_df, part3_plot_df, part3_stat_df, subset>>
vars == <<csv, pc, i, subjects_seen, subjects, samples, db, reported, rerun,
          app, queries, calls, freq_df, part3_plot_df, part3_stat_df, subset, request, reply>>

(***************************************************************************)
(* Bounds of the model.                                                    *)
(***************************************************************************)
MaxRows == 2
\* update_freq_table calls followed within one run of the analysis process
MaxCalls == 2
\* rows of the longest file of SpecStat (at most Len(StatKeys))
MaxStatRows == 6

(***************************************************************************)
(* Values.                                                                 *)
(***************************************************************************)
NULL == "<NULL>"
\* The store file: missing, an empty file without tables, or holding the two
\* tables
Absent ==
    [exists |-> FALSE, tables |-> FALSE, subjects |-> <<>>, samples |-> <<>>]
EmptyFile ==
    [exists |-> TRUE, tables |-> FALSE, subjects |-> <<>>, samples |-> <<>>]
EmptyStore ==
    [exists |-> TRUE, tables |-> TRUE, subjects |-> <<>>, samples |-> <<>>]
NoRerun == Absent

POPULATIONS == <<"b_cell", "cd8_t_cell", "cd4_t_cell", "nk_cell", "monocyte">>

(***************************************************************************)
(* int(text): an optional sign followed by one or more decimal digits.     *)
(* Anything else raises ValueError.  (The blanks and underscores int()     *)
(* also accepts do not occur in the texts of the model.)  The value has no *)
(* bound in Python; int(t) below is evaluated only for texts that          *)
(* FitsInt64 admits, and in the model only for short ones.                 *)
(***************************************************************************)
DigitVal ==
    "0" :> 0 @@ "1" :> 1 @@ "2" :> 2 @@ "3" :> 3 @@ "4" :> 4 @@
    "5" :> 5 @@ "6" :> 6 @@ "7" :> 7 @@ "8" :> 8 @@ "9" :> 9

IsDigits(t) == Len(t) > 0 /\ \A k \in 1..Len(t) : t[k] \in DOMAIN DigitVal

RECURSIVE DigitsValue(_)
DigitsValue(t) ==
    IF Len(t) = 0 THEN 0
    ELSE 10 * DigitsValue(SubSeq(t, 1, Len(t) - 1)) + DigitVal[t[Len(t)]]

IsIntText(t) ==
    /\ Len(t) > 0
    /\ IF t[1] \in {"-", "+"} THEN IsDigits(Tail(t)) ELSE IsDigits(t)

int(t) ==
    IF t[1] = "-" THEN 0 - DigitsValue(Tail(t))
    ELSE IF t[1] = "+" THEN DigitsValue(Tail(t))
    ELSE DigitsValue(t)

(***************************************************************************)
(* cursor.execute binds a Python int as a 64-bit INTEGER: outside          *)
(* -2^63 .. 2^63 - 1 it raises OverflowError.  The range is decided on the *)
(* digits of the text.                                                     *)
(***************************************************************************)
\* the digits of 2^63 - 1
INT64_MAX ==
    <<"9", "2", "2", "3", "3", "7", "2", "0", "3", "6", "8", "5", "4", "7",
      "7", "5", "8", "0", "7">>

\* the number the digits d denote is at most the one lim denotes; lim has
\* no leading zero
DigitsAtMost(d, lim) ==
    LET zeros == Cardinality({k \in 1..Len(d) : \A j \in 1..k : d[j] = "0"})
        s == SubSeq(d, zeros + 1, Len(d))
    IN \/ Len(s) < Len(lim)
       \/ /\ Len(s) = Len(lim)
          /\ \A k \in 1..Len(s) :
                (\A j \in 1..(k - 1) : s[j] = lim[j])
                   => DigitVal[s[k]] <= DigitVal[lim[k]]

\* -2^63 <= int(t) <= 2^63 - 1, for a text t that int() parses
FitsInt64(t) ==
    IF t[1] = "-"
    THEN DigitsAtMost(Tail(t), [INT64_MAX EXCEPT ![Len(INT64_MAX)] = "8"])
    ELSE IF t[1] = "+" THEN DigitsAtMost(Tail(t), INT64_MAX)
    ELSE DigitsAtMost(t, INT64_MAX)

(***************************************************************************)
(* The rows an input file is made of.  A row is what csv.DictReader        *)
(* yields: one text per column; a line that is one field short yields     *)
(* NULL for the column the header lists last: project = NULL in a file     *)
(* whose header ends with project, sample = NULL in one whose header ends  *)
(* with sample.                                                            *)
(* Rows are the reference row (a melanoma / miraclib / PBMC baseline       *)
(* sample of a responder) under each of the four key pairs, changed in at  *)
(* most one other column.                                                  *)
(***************************************************************************)
SubjectKeys == {"s1", "s2"}
SampleKeys == {"a1", "a2"}
Projects == {"p1", "p2", NULL}
Conditions == {"melanoma", "healthy"}
AgeTexts == {<<"3", "0">>, <<"x">>}
Sexes == {"M", "F"}
Treatments == {"miraclib", "none"}
Responses == {"yes", "no", ""}
SampleTypes == {"PBMC", "WB"}
TimeTexts == {<<"0">>, <<"7">>, <<"x">>}

CountsA == <<<<"5", "0">>, <<"2", "0">>, <<"1", "0">>, <<"1", "0">>, <<"1", "0">>>>
CountsB == <<<<"1", "0", "0">>, <<"4", "0">>, <<"2", "0">>, <<"2", "0">>, <<"2", "0">>>>
CountsOdd == <<<<"1">>, <<"2">>, <<"3">>, <<"4">>, <<"5">>>>
CountsZero == <<<<"0">>, <<"0">>, <<"0">>, <<"0">>, <<"0">>>>
CountsTie == <<<<"2", "3">>, <<"4", "9">>, <<"8", "8">>, <<"0">>, <<"0">>>>
CountsNeg == <<<<"-", "1">>, <<"1">>, <<"0">>, <<"0">>, <<"0">>>>
CountsBadText == <<<<"1">>, <<"2">>, <<"3">>, <<"x">>, <<"5">>>>
CountsEmptyText == <<<<"1">>, <<"2">>, <<"3">>, <<"4">>, <<>>>>
\* b_cell = 2^63
CountsHuge ==
    <<[INT64_MAX EXCEPT ![Len(INT64_MAX)] = "8"], <<"2">>, <<"3">>, <<"4">>,
      <<"5">>>>
CountTexts ==
    {CountsA, CountsB, CountsOdd, CountsZero, CountsTie, CountsNeg,
     CountsBadText, CountsEmptyText, CountsHuge}

MkRow(project, subject, sample, condition, age, sex, treatment, response, sample_type, time, counts) ==
    [project |-> project, subject |-> subject, sample |-> sample,
     condition |-> condition, age |-> age, sex |-> sex,
     treatment |-> treatment, response |-> response,
     sample_type |-> sample_type, time_from_treatment_start |-> time,
     b_cell |-> counts[1], cd8_t_cell |-> counts[2], cd4_t_cell |-> counts[3],
     nk_cell |-> counts[4], monocyte |-> counts[5]]

RefRow(subject, sample) ==
    MkRow("p1", subject, sample, "melanoma", <<"3", "0">>, "M", "miraclib",
          "yes", "PBMC", <<"0">>, CountsA)

Rows ==
    UNION {
        LET ref == RefRow(su, sa) IN
          {ref}
          \cup {[ref EXCEPT !.project = v] : v \in Projects}
          \cup {[ref EXCEPT !.condition = v] : v \in Conditions}
          \cup {[ref EXCEPT !.age = v] : v \in AgeTexts}
          \cup {[ref EXCEPT !.sex = v] : v \in Sexes}
          \cup {[ref EXCEPT !.treatment = v] : v \in Treatments}
          \cup {[ref EXCEPT !.response = v] : v \in Responses}
          \cup {[ref EXCEPT !.sample_type = v] : v \in SampleTypes}
          \cup {[ref EXCEPT !.time_from_treatment_start = v] : v \in TimeTexts}
          \cup {MkRow(ref.project, su, sa, ref.condition, ref.age, ref.sex,
                      ref.treatment, ref.response, ref.sample_type,
                      ref.time_from_treatment_start, c) : c \in CountTexts}
        : su \in SubjectKeys, sa \in SampleKeys }
    \cup {RefRow(su, NULL) : su \in SubjectKeys}

(***************************************************************************)
(* SQLite: INSERT OR IGNORE skips the row when it violates a PRIMARY KEY   *)
(* or a NOT NULL constraint of SCHEMA; foreign keys are not enforced       *)
(* (PRAGMA foreign_keys is off by default).  A TEXT PRIMARY KEY column     *)
(* that is not declared NOT NULL admits NULL, and a NULL key conflicts     *)
(* with no other key, NULL included.                                       *)
(***************************************************************************)
SubjectKeysOf(tbl) == {tbl[k].subject_id : k \in 1..Len(tbl)}
SampleKeysOf(tbl) == {tbl[k].sample_id : k \in 1..Len(tbl)}

KeyConflicts(key, keys) == key # NULL /\ key \in keys

\* The subject insert under a schema whose project_id may be NULL
InsertOrIgnoreSubject_nullable(tbl, rec) ==
    IF KeyConflicts(rec.subject_id, SubjectKeysOf(tbl))
    THEN tbl
    ELSE Append(tbl, rec)

InsertOrIgnoreSubject(tbl, rec) ==
    IF KeyConflicts(rec.subject_id, SubjectKeysOf(tbl)) \/ rec.project_id = NULL
    THEN tbl
    ELSE Append(tbl, rec)

InsertOrIgnoreSample(tbl, rec) ==
    IF KeyConflicts(rec.sample_id, SampleKeysOf(tbl)) \/ rec.subject_id = NULL
    THEN tbl
    ELSE Append(tbl, rec)

(***************************************************************************)
(* load_csv, one row of the loop.                                          *)
(***************************************************************************)
ResponseOf(row) == IF row.response # "" THEN row.response ELSE NULL

SubjectNeeded(row, seen) == row.subject \notin seen

SubjectParses(row) == IsIntText(row.age)

SampleParses(row) ==
    /\ IsIntText(row.time_from_treatment_start)
    /\ IsIntText(row.b_cell)
    /\ IsIntText(row.cd8_t_cell)
    /\ IsIntText(row.cd4_t_cell)
    /\ IsIntText(row.nk_cell)
    /\ IsIntText(row.monocyte)

\* the values of the subject insert fit SQLite's INTEGER
SubjectBinds(row) == FitsInt64(row.age)

\* the values of the sample insert fit SQLite's INTEGER
SampleBinds(row) ==
    /\ FitsInt64(row.time_from_treatment_start)
    /\ FitsInt64(row.b_cell)
    /\ FitsInt64(row.cd8_t_cell)
    /\ FitsInt64(row.cd4_t_cell)
    /\ FitsInt64(row.nk_cell)
    /\ FitsInt64(row.monocyte)

\* neither int() nor cursor.execute raises on the row
RowLoads(row, seen) ==
    /\ SubjectNeeded(row, seen) => (SubjectParses(row) /\ SubjectBinds(row))
    /\ SampleParses(row) /\ SampleBinds(row)

SubjectRecord(row) ==
    [subject_id |-> row.subject, project_id |-> row.project,
     condition |-> row.condition, age |-> int(row.age), sex |-> row.sex,
     treatment |-> row.treatment, response |-> ResponseOf(row)]

SampleRecord(row) ==
    [sample_id |-> row.sample, subject_id |-> row.subject,
     sample_type |-> row.sample_type,
     time_from_treatment_start |-> int(row.time_from_treatment_start),
     b_cell |-> int(row.b_cell), cd8_t_cell |-> int(row.cd8_t_cell),
     cd4_t_cell |-> int(row.cd4_t_cell), nk_cell |-> int(row.nk_cell),
     monocyte |-> int(row.monocyte)]

(***************************************************************************)
(* main: the store file is removed, recreated by init_db, then loaded.     *)
(***************************************************************************)
(* app.py: the JOIN of the three queries.  SQLite scans samples in rowid   *)
(* order and looks the subject up by its primary key; a sample without a   *)
(* subject row yields no result row.                                       *)
(***************************************************************************)
HasSubject(store, s) == s.subject_id \in SubjectKeysOf(store.subjects)

SubjectOf(store, s) ==
    LET k == CHOOSE k \in 1..Len(store.subjects) :
                 store.subjects[k].subject_id = s.subject_id
    IN store.subjects[k]

JoinSamplesSubjects(store) ==
    LET Matched(s) == HasSubject(store, s)
        found == SelectSeq(store.samples, Matched)
    IN [n \in 1..Len(found) |->
          [s |-> found[n], su |-> SubjectOf(store, found[n])]]

CountOf(rec, p) ==
    CASE p = "b_cell" -> rec.b_cell
      [] p = "cd8_t_cell" -> rec.cd8_t_cell
      [] p = "cd4_t_cell" -> rec.cd4_t_cell
      [] p = "nk_cell" -> rec.nk_cell
      [] p = "monocyte" -> rec.monocyte

\* The row sum without the last population column
SumPopulations_without_monocyte(rec) ==
    rec.b_cell + rec.cd8_t_cell + rec.cd4_t_cell + rec.nk_cell

SumPopulations(rec) ==
    rec.b_cell + rec.cd8_t_cell + rec.cd4_t_cell + rec.nk_cell + rec.monocyte

(***************************************************************************)
(* Natural numbers of any size, for the float64 arithmetic of pandas,      *)
(* numpy and scipy: a number is the sequence of its digits in base 2^14,   *)
(* lowest digit first, without leading zero digits; <<>> is 0.  Digits of  *)
(* 14 bits keep every product of two digits, and every sum of four such    *)
(* products, within 31 bits.                                               *)
(***************************************************************************)
LimbBits == 14
Base == 16384

Pow2(k) ==
    <<1, 2, 4, 8, 16, 32, 64, 128, 256, 512, 1024, 2048, 4096, 8192,
      16384>>[k + 1]

\* the number of bits of n, 0 <= n < Base
IntBitLen(n) ==
    CHOOSE k \in 0..LimbBits :
        IF k = 0 THEN n = 0 ELSE Pow2(k - 1) <= n /\ n < Pow2(k)

Limb(a, k) == IF k >= 1 /\ k <= Len(a) THEN a[k] ELSE 0

Max(x, y) == IF x >= y THEN x ELSE y

Abs(x) == IF x < 0 THEN 0 - x ELSE x

Sgn(x) == IF x > 0 THEN 1 ELSE IF x < 0 THEN 0 - 1 ELSE 0

RECURSIVE BigNorm(_)
BigNorm(a) ==
    IF Len(a) > 0 /\ a[Len(a)] = 0 THEN BigNorm(SubSeq(a, 1, Len(a) - 1))
    ELSE a

\* n >= 0 as a big natural
BigFromInt(n) ==
    BigNorm(<<n % Base, (n \div Base) % Base, n \div (Base * Base)>>)

\* a big natural below 2^31 as an integer
BigToInt(a) == Limb(a, 1) + Base * Limb(a, 2) + Base * Base * Limb(a, 3)

\* the digits from position k on of a + b + carry * Base^(k-1)
RECURSIVE BigAddFrom(_, _, _, _)
BigAddFrom(a, b, k, carry) ==
    IF k > Len(a) /\ k > Len(b)
    THEN IF carry = 0 THEN <<>> ELSE <<carry>>
    ELSE LET x == Limb(a, k) + Limb(b, k) + carry
         IN <<x % Base>> \o BigAddFrom(a, b, k + 1, x \div Base)

BigAdd(a, b) == BigAddFrom(a, b, 1, 0)

RECURSIVE BigSubFrom(_, _, _, _)
BigSubFrom(a, b, k, borrow) ==
    IF k > Len(a) THEN <<>>
    ELSE LET x == a[k] - Limb(b, k) - borrow
         IN <<x % Base>> \o BigSubFrom(a, b, k + 1, IF x < 0 THEN 1 ELSE 0)

\* a - b for a >= b
BigSub(a, b) == BigNorm(BigSubFrom(a, b, 1, 0))

RECURSIVE BigCmpFrom(_, _, _)
BigCmpFrom(a, b, k) ==
    IF k = 0 THEN 0
    ELSE IF a[k] > b[k] THEN 1
    ELSE IF a[k] < b[k] THEN 0 - 1
    ELSE BigCmpFrom(a, b, k - 1)

\* -1, 0, 1 as a is below, equal to or above b
BigCmp(a, b) ==
    IF Len(a) > Len(b) THEN 1
    ELSE IF Len(a) < Len(b) THEN 0 - 1
    ELSE BigCmpFrom(a, b, Len(a))

\* a * 2^k
BigShl(a, k) ==
    LET d == k \div LimbBits
        s == Pow2(k % LimbBits)
    IN BigNorm([n \in 1..(Len(a) + d + 1) |->
                  ((Limb(a, n - d) * s) % Base)
                    + ((Limb(a, n - d - 1) * s) \div Base)])

\* a \div 2^k
BigShr(a, k) ==
    LET d == k \div LimbBits
        s == Pow2(k % LimbBits)
        t == Pow2(LimbBits - (k % LimbBits))
    IN BigNorm([n \in 1..Max(Len(a) - d, 0) |->
                  (Limb(a, n + d) \div s) + ((Limb(a, n + d + 1) % s) * t)])

\* the sum of the products of digits that make digit k of a * b, for a of
\* at most four digits
BigColumn(a, b, k) ==
    Limb(a, 1) * Limb(b, k) + Limb(a, 2) * Limb(b, k - 1)
      + Limb(a, 3) * Limb(b, k - 2) + Limb(a, 4) * Limb(b, k - 3)

\* the digits from position k on of a * b + carry * Base^(k-1)
RECURSIVE BigMulFrom(_, _, _, _)
BigMulFrom(a, b, k, carry) ==
    IF k > Len(a) + Len(b) THEN <<>>
    ELSE LET x == BigColumn(a, b, k) + carry
         IN <<x % Base>> \o BigMulFrom(a, b, k + 1, x \div Base)

\* a * b for a of at most four digits
BigMul(a, b) == BigNorm(BigMulFrom(a, b, 1, 0))

BigBitLen(a) ==
    IF Len(a) = 0 THEN 0 ELSE LimbBits * (Len(a) - 1) + IntBitLen(a[Len(a)])

BigIsOdd(a) == Len(a) > 0 /\ a[1] % 2 = 1

\* division by one digit d, from digit k of a down
RECURSIVE BigDivSmallFrom(_, _, _, _, _)
BigDivSmallFrom(a, d, k, quot, rem) ==
    IF k = 0 THEN [quot |-> BigNorm(quot), rem |-> BigFromInt(rem)]
    ELSE LET cur == rem * Base + a[k]
         IN BigDivSmallFrom(a, d, k - 1, <<cur \div d>> \o quot, cur % d)

\* the digit q with q * b <= cur < (q + 1) * b, for cur < b * Base and b of
\* at most four digits whose highest is Base \div 2 or more: the estimate
\* from the leading digits is at most 2 too high
RECURSIVE BigQuotientDigitFrom(_, _, _)
BigQuotientDigitFrom(cur, b, est) ==
    IF BigCmp(BigMul(b, <<est>>), cur) <= 0 THEN est
    ELSE BigQuotientDigitFrom(cur, b, est - 1)

BigQuotientDigit(cur, b) ==
    LET n == Len(b)
        lead == Limb(cur, n + 1) * Base + Limb(cur, n)
    IN BigQuotientDigitFrom(cur, b,
           IF lead \div b[n] >= Base THEN Base - 1 ELSE lead \div b[n])

\* the state of the long division after digit q of the quotient, found
\* for cur
BigDivModPut(st, cur, b, q) ==
    [quot |-> <<q>> \o st.quot, rem |-> BigSub(cur, BigMul(b, <<q>>))]

BigDivModDigit(st, cur, b) ==
    BigDivModPut(st, cur, b, BigQuotientDigit(cur, b))

\* one step of the long division: the next digit of a is brought down
BigDivModStep(a, b, st) ==
    BigDivModDigit(st, BigNorm(<<a[Len(a) - Len(st.quot)]>> \o st.rem), b)

\* long division by b as for BigQuotientDigit, one digit of a at a time
\* from the highest; st.quot holds the digits found, st.rem what is left
\* of the digits of a read so far
RECURSIVE BigDivModFrom(_, _, _)
BigDivModFrom(a, b, st) ==
    IF Len(st.quot) = Len(a) THEN [quot |-> BigNorm(st.quot), rem |-> st.rem]
    ELSE BigDivModFrom(a, b, BigDivModStep(a, b, st))

BigDivModUnshift(h, s) == [quot |-> h.quot, rem |-> BigShr(h.rem, s)]

BigDivLongShifted(a, b, s) ==
    BigDivModUnshift(BigDivModFrom(BigShl(a, s), BigShl(b, s),
                                   [quot |-> <<>>, rem |-> <<>>]), s)

\* a \div b and a % b for b of two to four digits, the lowest not 0
BigDivLong(a, b) == BigDivLongShifted(a, b, LimbBits - IntBitLen(b[Len(b)]))

\* the number of zero digits below the lowest digit of b > 0 that is not 0
BigLowZeros(b) ==
    CHOOSE z \in 0..(Len(b) - 1) : b[z + 1] # 0 /\ \A k \in 1..z : b[k] = 0

\* a \div b and a % b for b > 0 of at most four digits: the low zero
\* digits of b are set aside with as many digits of a
BigDivModHigh(ah, bh) ==
    IF Len(bh) = 1 THEN BigDivSmallFrom(ah, bh[1], Len(ah), <<>>, 0)
    ELSE BigDivLong(ah, bh)

BigDivModJoin(a, z, h) ==
    [quot |-> h.quot, rem |-> BigNorm([k \in 1..z |-> Limb(a, k)] \o h.rem)]

BigDivModAbove(a, b, z) ==
    BigDivModJoin(a, z, BigDivModHigh(SubSeq(a, z + 1, Len(a)),
                                      SubSeq(b, z + 1, Len(b))))

BigDivMod(a, b) == BigDivModAbove(a, b, BigLowZeros(b))

\* Newton's iteration from x above the root, down to the integer part of
\* the square root of a; y is the next approximation after x
RECURSIVE BigIsqrtFrom(_, _)
RECURSIVE BigIsqrtNext(_, _, _)
BigIsqrtNext(a, x, y) == IF BigCmp(y, x) >= 0 THEN x ELSE BigIsqrtFrom(a, y)

BigIsqrtFrom(a, x) ==
    BigIsqrtNext(a, x, BigShr(BigAdd(x, BigDivMod(a, x).quot), 1))

\* the integer part of the square root of a, 0 < a < 2^112
BigIsqrt(a) ==
    BigIsqrtFrom(a, BigSub(BigShl(<<1>>, (BigBitLen(a) + 1) \div 2), <<1>>))

\* a * 2^e (e < 0 allowed) rounded to the nearest integer, ties to even
\* q or q + 1 as c is the sign of the dropped part minus one half
BigRoundTie(q, c) ==
    IF c > 0 \/ (c = 0 /\ BigIsOdd(q)) THEN BigAdd(q, <<1>>) ELSE q

BigRoundDown(a, k, q) ==
    BigRoundTie(q, BigCmp(BigShl(BigSub(a, BigShl(q, k)), 1),
                          BigShl(<<1>>, k)))

BigRoundShift(a, e) ==
    IF e >= 0 THEN BigShl(a, e) ELSE BigRoundDown(a, 0 - e, BigShr(a, 0 - e))

\* the decimal digits of a, highest first; <<>> for 0
RECURSIVE BigToDecimal(_)
BigToDecimal(a) ==
    IF Len(a) = 0 THEN <<>>
    ELSE LET h == BigDivSmallFrom(a, 10, Len(a), <<>>, 0)
         IN BigToDecimal(h.quot) \o <<BigToInt(h.rem)>>

(***************************************************************************)
(* float64 (IEEE 754 binary64), the type of every number pandas, numpy     *)
(* and scipy compute here.  A finite number is sign * m * 2^e with m a     *)
(* big natural, 2^52 <= m < 2^53, or zero (sign = 0); every result is      *)
(* rounded to nearest, ties to even.  Subnormal numbers, overflow and the  *)
(* sign of zero are left out; x / 0 is an infinity and 0 / 0 is NaN, as    *)
(* numpy computes them.                                                    *)
(***************************************************************************)
FlNaN == [cls |-> "nan", sign |-> 0, m |-> <<>>, e |-> 0]
FlInf(sign) == [cls |-> "inf", sign |-> sign, m |-> <<>>, e |-> 0]
FlZero == [cls |-> "finite", sign |-> 0, m |-> <<>>, e |-> 0]
FlFinite(sign, m, e) == [cls |-> "finite", sign |-> sign, m |-> m, e |-> e]

\* the float64 nearest sign * n * 2^e, n taken a fraction of a unit larger
\* if sticky
\* sign * n * 2^e for n of len bits, len <= 53: no rounding
FlExact(sign, n, e, len) ==
    IF len = 0 THEN FlZero
    ELSE FlFinite(sign, BigShl(n, 53 - len), e - (53 - len))

\* sign * m * 2^e for m <= 2^53, the result of a rounding
FlCarry(sign, m, e) ==
    IF BigBitLen(m) > 53 THEN FlFinite(sign, BigShr(m, 1), e + 1)
    ELSE FlFinite(sign, m, e)

\* FlRound for n of len bits: beyond 53 bits, k bits are dropped, and the
\* sticky fraction is one more bit below n
FlRoundBits(sign, n, e, sticky, len) ==
    IF len <= 53 THEN FlExact(sign, n, e, len)
    ELSE FlCarry(sign,
                 BigRoundShift(BigAdd(BigShl(n, 1),
                                      IF sticky THEN <<1>> ELSE <<>>),
                               0 - (len - 53) - 1),
                 e + (len - 53))

FlRound(sign, n, e, sticky) == FlRoundBits(sign, n, e, sticky, BigBitLen(n))

FlFromNat(sign, m) == FlExact(sign, m, 0, BigBitLen(m))

\* float(n)
FlFromInt(n) == FlFromNat(Sgn(n), BigFromInt(Abs(n)))

FlNeg(x) == [x EXCEPT !.sign = 0 - x.sign]

FlAbs(x) == [x EXCEPT !.sign = Abs(x.sign)]

\* x * y; infinity * 0 is NaN
FlMul(x, y) ==
    IF x.cls = "nan" \/ y.cls = "nan" THEN FlNaN
    ELSE IF x.cls = "inf" \/ y.cls = "inf"
    THEN (IF x.sign * y.sign = 0 THEN FlNaN ELSE FlInf(x.sign * y.sign))
    ELSE IF x.sign = 0 \/ y.sign = 0 THEN FlZero
    ELSE FlRound(x.sign * y.sign, BigMul(x.m, y.m), x.e + y.e, FALSE)

\* x + y for x.e >= y.e, both finite and not zero
\* sx * a * 2^e + sy * b * 2^e
FlAddAligned(sx, a, sy, b, e) ==
    FlRound(IF sx = sy \/ BigCmp(a, b) >= 0 THEN sx ELSE sy,
            IF sx = sy THEN BigAdd(a, b)
            ELSE IF BigCmp(a, b) >= 0 THEN BigSub(a, b) ELSE BigSub(b, a),
            e, FALSE)

FlAddOrdered(x, y) ==
    IF x.e - y.e > 56 THEN x
    ELSE FlAddAligned(x.sign, BigShl(x.m, x.e - y.e), y.sign, y.m, y.e)

\* x + y; infinity - infinity is NaN
FlAdd(x, y) ==
    IF x.cls = "nan" \/ y.cls = "nan" THEN FlNaN
    ELSE IF x.cls = "inf"
    THEN (IF y.cls = "inf" /\ y.sign # x.sign THEN FlNaN ELSE x)
    ELSE IF y.cls = "inf" THEN y
    ELSE IF x.sign = 0 THEN y
    ELSE IF y.sign = 0 THEN x
    ELSE FlAddOrdered(IF x.e >= y.e THEN x ELSE y,
                      IF x.e >= y.e THEN y ELSE x)

FlSub(x, y) == FlAdd(x, FlNeg(y))

FlDivRound(sign, h, e) == FlRound(sign, h.quot, e, Len(h.rem) > 0)

\* x / y; infinity / infinity and 0 / 0 are NaN
FlDiv(x, y) ==
    IF x.cls = "nan" \/ y.cls = "nan" THEN FlNaN
    ELSE IF x.cls = "inf"
    THEN (IF y.cls = "inf" THEN FlNaN
          ELSE FlInf(IF y.sign < 0 THEN 0 - x.sign ELSE x.sign))
    ELSE IF y.cls = "inf" THEN FlZero
    ELSE IF y.sign = 0 THEN (IF x.sign = 0 THEN FlNaN ELSE FlInf(x.sign))
    ELSE IF x.sign = 0 THEN FlZero
    ELSE FlDivRound(x.sign * y.sign, BigDivMod(BigShl(x.m, 56), y.m),
                    x.e - y.e - 56)

\* the float64 nearest the square root of a * 4^e, r its integer part
FlSqrtRound(a, r, e) == FlRound(1, r, e, BigCmp(BigMul(r, r), a) # 0)

FlSqrtOf(a, e) == FlSqrtRound(a, BigIsqrt(a), e)

FlSqrtShifted(x, s) == FlSqrtOf(BigShl(x.m, s), (x.e - s) \div 2)

\* the square root of x; NaN for x < 0
FlSqrt(x) ==
    IF x.cls = "nan" \/ x.sign < 0 THEN FlNaN
    ELSE IF x.cls = "inf" \/ x.sign = 0 THEN x
    ELSE FlSqrtShifted(x, IF (x.e % 2) = 0 THEN 58 ELSE 59)

\* -1, 0, 1 as x is below, equal to or above y, both finite
FlCmp(x, y) ==
    IF x.sign # y.sign THEN (IF x.sign < y.sign THEN 0 - 1 ELSE 1)
    ELSE IF x.sign = 0 THEN 0
    ELSE IF x.e # y.e THEN (IF x.e < y.e THEN 0 - x.sign ELSE x.sign)
    ELSE x.sign * BigCmp(x.m, y.m)

\* the integer nearest x * scale, ties to even, for a finite x and
\* 0 < scale < Base: what rint and Python's round(x, k) make of the exact
\* value of x
FlRoundScaled(x, scale) == BigRoundShift(BigMul(x.m, <<scale>>), x.e)

\* FlRoundScaled with the sign of x, for a result below 2^31
FlNearestScaled(x, scale) == x.sign * BigToInt(FlRoundScaled(x, scale))

FlSquare(x) == FlMul(x, x)

\* x * 2^k
FlScale(x, k) ==
    IF x.cls # "finite" \/ x.sign = 0 THEN x ELSE [x EXCEPT !.e = @ + k]

\* np.where(np.isnan(x), y, x)
FlWhereNaN(x, y) == IF x.cls = "nan" THEN y ELSE x

FlOne == FlFromInt(1)
FlHalf == FlScale(FlOne, 0 - 1)

(***************************************************************************)
(* (count / total * 100).round(2) on float64 columns.  A percentage is     *)
(* kept in hundredths: Finite(h) is the float64 nearest h / 100.  Division *)
(* by zero raises nothing: 0/0 is NaN and x/0 is +inf or -inf.             *)
(* Series.round(2) is rint(x * 100) / 100, so the hundredths are           *)
(*   rint(((count / total) * 100) * 100)                                   *)
(* with three float64 roundings before rint.  Their error is far smaller   *)
(* than the distance of the exact quotient to the next number halfway      *)
(* between two hundredths unless the exact quotient is such a number, so   *)
(* the hundredths are the nearest integer of the exact quotient, computed  *)
(* in integers, except at a tie, where the float64 operations decide.      *)
(***************************************************************************)
NaN == [cls |-> "nan", hundredths |-> 0]
PosInf == [cls |-> "inf", hundredths |-> 0]
NegInf == [cls |-> "-inf", hundredths |-> 0]
Finite(h) == [cls |-> "finite", hundredths |-> h]

\* n / d rounded to the nearest integer, ties to even, for n >= 0 and d > 0
RoundHalfEven(n, d) ==
    LET q == n \div d
        r == n - q * d
    IN IF 2 * r < d THEN q
       ELSE IF 2 * r > d THEN q + 1
       ELSE IF q % 2 = 0 THEN q ELSE q + 1

\* n / d lies halfway between two integers, for n >= 0 and d > 0
IsHalfway(n, d) == 2 * (n % d) = d

\* rint(count / total * 100 * 100) in float64, for total # 0
RintScaledRatio(count, total) ==
    FlNearestScaled(FlMul(FlMul(FlDiv(FlFromInt(count), FlFromInt(total)),
                                FlFromInt(100)),
                          FlFromInt(100)), 1)

\* The percentage with a zero total coerced to 0
Percentage_zero_filled(count, total) ==
    IF total = 0 THEN Finite(0)
    ELSE IF IsHalfway(Abs(count) * 10000, Abs(total))
    THEN Finite(RintScaledRatio(count, total))
    ELSE Finite(Sgn(count) * Sgn(total)
                  * RoundHalfEven(Abs(count) * 10000, Abs(total)))

Percentage(count, total) ==
    IF total = 0
    THEN (IF count = 0 THEN NaN ELSE IF count > 0 THEN PosInf ELSE NegInf)
    ELSE IF IsHalfway(Abs(count) * 10000, Abs(total))
    THEN Finite(RintScaledRatio(count, total))
    ELSE Finite(Sgn(count) * Sgn(total)
                  * RoundHalfEven(Abs(count) * 10000, Abs(total)))

(***************************************************************************)
(* DataFrame.melt: one block of rows per value column, in column order.    *)
(* Row n of the long table comes from row MeltRow(n, rows) of the wide     *)
(* table and from value column MeltColumn(n, rows).                        *)
(***************************************************************************)
MeltRow(n, rows) == ((n - 1) % rows) + 1
MeltColumn(n, rows) == ((n - 1) \div rows) + 1

(***************************************************************************)
(* PART 2: build_frequency_df                                              *)
(***************************************************************************)
FrequencyRow(r, p) ==
    LET total_count == SumPopulations(r.s) IN
    [sample |-> r.s.sample_id, project |-> r.su.project_id,
     condition |-> r.su.condition, treatment |-> r.su.treatment,
     sample_type |-> r.s.sample_type, total_count |-> total_count,
     population |-> p, count |-> CountOf(r.s, p),
     percentage |-> Percentage(CountOf(r.s, p), total_count)]

build_frequency_df(store) ==
    LET raw == JoinSamplesSubjects(store) IN
    [n \in 1..(Len(raw) * Len(POPULATIONS)) |->
        FrequencyRow(raw[MeltRow(n, Len(raw))],
                     POPULATIONS[MeltColumn(n, Len(raw))])]

(***************************************************************************)
(* PART 3: build_stat_data, the cohort query and the long table            *)
(***************************************************************************)
LABELS2TXT ==
    "b_cell" :> "B Cell" @@ "cd8_t_cell" :> "CD8 T Cell" @@
    "cd4_t_cell" :> "CD4 T Cell" @@ "nk_cell" :> "NK Cell" @@
    "monocyte" :> "Monocyte"

RESPONSE_LABELS == "yes" :> "Responder" @@ "no" :> "Non-Responder"

MapLabel(labels, v) == IF v \in DOMAIN labels THEN labels[v] ELSE NULL

\* The cohort filter without the clause on response
InCohort_any_response(r) ==
    /\ r.su.condition = "melanoma"
    /\ r.su.treatment = "miraclib"
    /\ r.s.sample_type = "PBMC"

InCohort(r) ==
    /\ r.su.condition = "melanoma"
    /\ r.su.treatment = "miraclib"
    /\ r.s.sample_type = "PBMC"
    /\ r.su.response # NULL

CohortQuery(store) == SelectSeq(JoinSamplesSubjects(store), InCohort)

PlotRow(r, p) ==
    [sample_id |-> r.s.sample_id, response |-> r.su.response,
     population |-> p,
     percentage |-> Percentage(CountOf(r.s, p), SumPopulations(r.s)),
     pop_label |-> LABELS2TXT[p],
     resp_label |-> MapLabel(RESPONSE_LABELS, r.su.response)]

build_stat_data_plot(store) ==
    LET raw == CohortQuery(store) IN
    [n \in 1..(Len(raw) * Len(POPULATIONS)) |->
        PlotRow(raw[MeltRow(n, Len(raw))],
                POPULATIONS[MeltColumn(n, Len(raw))])]

\* raw.loc[raw["response"] == label, p + "_pct"].values: the percentages of
\* population p over the cohort rows of one response group
GroupValues(raw, label, p) ==
    LET InGroup(r) == r.su.response = label
        rows == SelectSeq(raw, InGroup)
    IN [n \in 1..Len(rows) |->
          Percentage(CountOf(rows[n].s, p), SumPopulations(rows[n].s))]

(***************************************************************************)
(* The float64 arithmetic of the group statistics.  A group is a sequence  *)
(* of percentages; its values are the float64 numbers nearest h / 100.     *)
(***************************************************************************)
HasClass(vals, cls) == \E k \in 1..Len(vals) : vals[k].cls = cls
AllFinite(vals) == \A k \in 1..Len(vals) : vals[k].cls = "finite"

RECURSIVE SumValues(_)
SumValues(vals) ==
    IF Len(vals) = 0 THEN 0
    ELSE Head(vals).hundredths + SumValues(Tail(vals))

\* the float64 value of a percentage: rint(y) / 100 for h hundredths
FlFromPercentage(v) ==
    IF v.cls = "nan" THEN FlNaN
    ELSE IF v.cls = "inf" THEN FlInf(1)
    ELSE IF v.cls = "-inf" THEN FlInf(0 - 1)
    ELSE FlDiv(FlFromInt(v.hundredths), FlFromInt(100))

FloatValues(vals) == [k \in 1..Len(vals) |-> FlFromPercentage(vals[k])]

\* np.add.reduce over fewer than 8 numbers: one addition after the other,
\* in the order of the array
RECURSIVE np_sum_from(_, _, _)
np_sum_from(xs, k, acc) ==
    IF k > Len(xs) THEN acc ELSE np_sum_from(xs, k + 1, FlAdd(acc, xs[k]))

np_sum(xs) == np_sum_from(xs, 1, FlZero)

\* np.mean of at most seven numbers; of none, 0 / 0
np_mean(xs) == FlDiv(np_sum(xs), FlFromInt(Len(xs)))

(***************************************************************************)
(* round(float(np.mean(vals)), 2), in hundredths.  The mean of no value    *)
(* is NaN, a NaN or two opposite infinities among the values give NaN.     *)
(* Python's round gives the hundredth nearest the exact value of the       *)
(* float64 mean, the even one at a tie.  The float64 mean differs from     *)
(* the exact mean of the hundredths by far less than the distance of the   *)
(* exact mean to the next number halfway between two hundredths, unless    *)
(* the exact mean is such a number; only then the float64 operations are   *)
(* carried out.                                                            *)
(***************************************************************************)
RoundedMean(vals) ==
    IF \/ Len(vals) = 0
       \/ HasClass(vals, "nan")
       \/ (HasClass(vals, "inf") /\ HasClass(vals, "-inf"))
    THEN NaN
    ELSE IF HasClass(vals, "inf") THEN PosInf
    ELSE IF HasClass(vals, "-inf") THEN NegInf
    ELSE LET total == SumValues(vals)
             n == Len(vals)
         IN IF IsHalfway(Abs(total), n)
            THEN Finite(FlNearestScaled(np_mean(FloatValues(vals)), 100))
            ELSE Finite(Sgn(total) * RoundHalfEven(Abs(total), n))

(***************************************************************************)
(* stats.ttest_ind(a, b, equal_var=False): Welch's test, as scipy computes *)
(* it in float64:                                                          *)
(*   v     = mean((x - mean(x))^2) * (n / (n - 1))     for each sample     *)
(*   vn    = v / n                                                         *)
(*   df    = (vn1 + vn2)^2 / (vn1^2 / (n1 - 1) + vn2^2 / (n2 - 1)),        *)
(*           1 where that is NaN                                           *)
(*   t     = (mean(a) - mean(b)) / sqrt(vn1 + vn2)                         *)
(*   p     = 2 * P(T_df > |t|)                                             *)
(* Nothing is special-cased: a sample of one value has the variance        *)
(* 0 * (1 / 0) = NaN, a sample of no value has the mean 0 / 0 = NaN, and a *)
(* value that is NaN or infinite makes the mean or the deviations NaN; the *)
(* NaN goes through every later operation.  Two samples whose variances    *)
(* come out 0 give 0 / 0 = NaN for equal means and an infinite t           *)
(* otherwise; a constant sample of three or more values may leave a        *)
(* variance that is tiny but not 0, and then t is finite.                  *)
(***************************************************************************)
\* (x - mean)^2 for each x of xs
SquaredDeviations(xs, mean) ==
    [k \in 1..Len(xs) |-> FlSquare(FlSub(xs[k], mean))]

\* scipy's _var(x, ddof=1): the mean of the squared deviations, times
\* n / (n - 1)
SampleVariance(xs) ==
    FlMul(np_mean(SquaredDeviations(xs, np_mean(xs))),
          FlDiv(FlFromInt(Len(xs)), FlFromInt(Len(xs) - 1)))

\* df and denom of _unequal_var_ttest_denom from vn1, vn2 and their sum
WelchSatterthwaite(vn1, n1, vn2, n2, sum) ==
    [df |-> FlWhereNaN(
                FlDiv(FlSquare(sum),
                      FlAdd(FlDiv(FlSquare(vn1), FlFromInt(n1 - 1)),
                            FlDiv(FlSquare(vn2), FlFromInt(n2 - 1)))),
                FlOne),
     denom |-> FlSqrt(sum)]

unequal_var_ttest_from(vn1, n1, vn2, n2) ==
    WelchSatterthwaite(vn1, n1, vn2, n2, FlAdd(vn1, vn2))

\* scipy's _unequal_var_ttest_denom
unequal_var_ttest_denom(v1, n1, v2, n2) ==
    unequal_var_ttest_from(FlDiv(v1, FlFromInt(n1)), n1,
                           FlDiv(v2, FlFromInt(n2)), n2)

(***************************************************************************)
(* The p-value of the test: 2 * P(T_df > |t|) for Student's distribution   *)
(* with df degrees of freedom, which is the regularised incomplete beta    *)
(* function I_x(df/2, 1/2) at x = df / (df + t^2).  scipy evaluates it     *)
(* with the routines of a C library; here it is summed in float64 from     *)
(* its power series, with a = df / 2 and y = 1 - x = t^2 / (df + t^2):     *)
(*   y <= 1/2:  p = 1 - 2 sqrt(y) / B * sum c_n y^n / (2 n + 1),           *)
(*              c_0 = 1, c_n = c_(n-1) (n - a) / n                         *)
(*   y >  1/2:  p = x^a / B * sum e_n x^n / (a + n),                       *)
(*              e_0 = 1, e_n = e_(n-1) (2 n - 1) / (2 n)                   *)
(* where 1 / B = Gamma(a + 1/2) / (Gamma(a) sqrt(pi)).  The result agrees  *)
(* with the exact value to about ten significant digits, not to the last   *)
(* bit of scipy's result.                                                  *)
(***************************************************************************)
\* the float64 (hi * 2^23 + lo) / 2^53, for 2^29 <= hi < 2^30, lo < 2^23
FlBits(hi, lo) ==
    FlFinite(1, BigAdd(BigShl(BigFromInt(hi), 23), BigFromInt(lo)), 0 - 53)

\* 0.6931471805599453, 0.7071067811865475, 0.5641895835477563
LN2 == FlBits(744261117, 8010223)
SQRT_HALF == FlBits(759250124, 8338380)
INV_SQRT_PI == FlBits(605793952, 4365165)

\* a series is summed until a term is below 2^-SeriesBits of the sum
SeriesBits == 48

Negligible(term, tot) ==
    term.sign = 0 \/ FlCmp(FlAbs(FlScale(term, SeriesBits)), FlAbs(tot)) < 0

\* Horner's rule from coefficient k down, acc holding the higher terms
RECURSIVE HornerFrom(_, _, _, _)
HornerFrom(co, s, k, acc) ==
    IF k = 0 THEN acc
    ELSE HornerFrom(co, s, k - 1, FlAdd(FlMul(acc, s), co[k]))

Horner(co, s) == HornerFrom(co, s, Len(co) - 1, co[Len(co)])

\* s + s^3/3 + s^5/5 + ... from the term of s^(2j+1) on, pw = s^(2j+1)
RECURSIVE FlAtanhFrom(_, _, _, _)
RECURSIVE FlAtanhTerm(_, _, _, _, _)
FlAtanhTerm(s2, pw, tot, j, term) ==
    IF Negligible(term, tot) THEN tot
    ELSE FlAtanhFrom(s2, FlMul(pw, s2), FlAdd(tot, term), j + 1)

FlAtanhFrom(s2, pw, tot, j) ==
    FlAtanhTerm(s2, pw, tot, j, FlDiv(pw, FlFromInt(2 * j + 1)))

FlAtanh(s) == FlAtanhFrom(FlSquare(s), s, FlZero, 0)

\* ln(f * 2^k) = k ln 2 + 2 atanh((f - 1) / (f + 1))
FlLogOf(f, k) ==
    FlAdd(FlMul(FlFromInt(k), LN2),
          FlScale(FlAtanh(FlDiv(FlSub(f, FlOne), FlAdd(f, FlOne))), 1))

\* the natural logarithm of a finite x > 0: x = f * 2^k with f between
\* sqrt(1/2) and sqrt(2)
FlLog(x) ==
    LET low == FlCmp([x EXCEPT !.e = 0 - 53], SQRT_HALF) < 0
    IN FlLogOf([x EXCEPT !.e = IF low THEN 0 - 52 ELSE 0 - 53],
               x.e + (IF low THEN 52 ELSE 53))

\* 1 + r + r^2/2! + ... from the term of r^n on, term = r^n / n!
RECURSIVE FlExpFrom(_, _, _, _)
FlExpFrom(r, term, tot, n) ==
    IF Negligible(term, tot) THEN tot
    ELSE FlExpFrom(r, FlDiv(FlMul(term, r), FlFromInt(n + 1)),
                   FlAdd(tot, term), n + 1)

\* e^w for w = k ln 2 + r
FlExpSplit(w, k) ==
    FlScale(FlExpFrom(FlSub(w, FlMul(FlFromInt(k), LN2)), FlOne, FlZero, 0),
            k)

\* e^w for a finite w <= 0, k the integer nearest w / ln 2; a result
\* below e^-700 is taken as 0
FlExp(w) ==
    IF FlCmp(w, FlFromInt(0 - 700)) < 0 THEN FlZero
    ELSE FlExpSplit(w, FlNearestScaled(FlDiv(w, LN2), 1))

\* Gamma(z + 1/2) / Gamma(z) = sqrt(z) * sum c_k / z^k for large z: the
\* coefficients c_0, c_1, ... as <<n, k>> for n / 2^k
GammaCoefficients ==
    <<<<1, 0>>, <<0 - 1, 3>>, <<1, 7>>, <<5, 10>>, <<0 - 21, 15>>,
      <<0 - 399, 18>>, <<869, 22>>, <<39325, 25>>>>

GammaSeries ==
    [k \in 1..Len(GammaCoefficients) |->
        FlScale(FlFromInt(GammaCoefficients[k][1]),
                0 - GammaCoefficients[k][2])]

\* the series is used from GammaLarge on
GammaLarge == 16

\* Gamma(z + 1/2) / Gamma(z) = (z / (z + 1/2)) * Gamma(z + 3/2) / Gamma(z + 1)
RECURSIVE GammaShift(_, _, _)
GammaShift(z, num, den) ==
    IF FlCmp(z, FlFromInt(GammaLarge)) >= 0
    THEN [z |-> z, num |-> num, den |-> den]
    ELSE GammaShift(FlAdd(z, FlOne), FlMul(num, z),
                    FlMul(den, FlAdd(z, FlHalf)))

GammaRatioFrom(h) ==
    FlDiv(FlMul(FlMul(FlSqrt(h.z), Horner(GammaSeries, FlDiv(FlOne, h.z))),
                h.num),
          h.den)

\* Gamma(a + 1/2) / Gamma(a) for a > 0
GammaRatio(a) == GammaRatioFrom(GammaShift(a, FlOne, FlOne))

\* sum c_n y^n / (2 n + 1) from term n on, u = c_n y^n
RECURSIVE LowerSeriesFrom(_, _, _, _, _)
RECURSIVE LowerSeriesTerm(_, _, _, _, _, _)
LowerSeriesTerm(y, a, u, tot, n, term) ==
    IF Negligible(term, tot) THEN tot
    ELSE LowerSeriesFrom(y, a,
                         FlDiv(FlMul(FlMul(u, y), FlSub(FlFromInt(n + 1), a)),
                               FlFromInt(n + 1)),
                         FlAdd(tot, term), n + 1)

LowerSeriesFrom(y, a, u, tot, n) ==
    LowerSeriesTerm(y, a, u, tot, n, FlDiv(u, FlFromInt(2 * n + 1)))

\* sum e_n x^n / (a + n) from term n on, e = e_n x^n
RECURSIVE UpperSeriesFrom(_, _, _, _, _)
RECURSIVE UpperSeriesTerm(_, _, _, _, _, _)
UpperSeriesTerm(x, a, e, tot, n, term) ==
    IF Negligible(term, tot) THEN tot
    ELSE UpperSeriesFrom(x, a,
                         FlDiv(FlMul(FlMul(e, x), FlFromInt(2 * n + 1)),
                               FlFromInt(2 * n + 2)),
                         FlAdd(tot, term), n + 1)

UpperSeriesFrom(x, a, e, tot, n) ==
    UpperSeriesTerm(x, a, e, tot, n, FlDiv(e, FlAdd(a, FlFromInt(n))))

\* I_x(a, 1/2) for y = 1 - x and q = Gamma(a + 1/2) / (Gamma(a) sqrt(pi))
BetaHalf(x, y, a, q) ==
    IF FlCmp(y, FlHalf) <= 0
    THEN FlSub(FlOne,
               FlMul(FlMul(FlScale(FlSqrt(y), 1), q),
                     LowerSeriesFrom(y, a, FlOne, FlZero, 0)))
    ELSE FlMul(FlMul(FlExp(FlMul(a, FlLog(x))), q),
               UpperSeriesFrom(x, a, FlOne, FlZero, 0))

TwoTailsOf(t2, df, s, a) ==
    BetaHalf(FlDiv(df, s), FlDiv(t2, s), a,
             FlMul(GammaRatio(a), INV_SQRT_PI))

TwoTailsSquared(t2, df) ==
    TwoTailsOf(t2, df, FlAdd(df, t2), FlScale(df, 0 - 1))

\* 2 * P(T_df > t) for finite t >= 0 and df > 0
TwoTails(t, df) == TwoTailsSquared(FlSquare(t), df)

\* the p-value of the statistic t: NaN for NaN, 0 for an infinite t
PValue(t, df) ==
    IF t.cls = "nan" THEN FlNaN
    ELSE IF t.cls = "inf" THEN FlZero
    ELSE TwoTails(FlAbs(t), df)

\* scipy's _ttest_finish for the two-sided alternative
ttest_finish(t, df) == [statistic |-> t, pvalue |-> PValue(t, df)]

\* scipy's _ttest_ind_from_stats, h the df and denom
ttest_ind_from_stats(mean1, mean2, h) ==
    ttest_finish(FlDiv(FlSub(mean1, mean2), h.denom), h.df)

ttest_arrays(x, y) ==
    ttest_ind_from_stats(
        np_mean(x), np_mean(y),
        unequal_var_ttest_denom(SampleVariance(x), Len(x),
                                SampleVariance(y), Len(y)))

ttest_ind(a, b) == ttest_arrays(FloatValues(a), FloatValues(b))

(***************************************************************************)
(* round(float(t_stat), 3): the thousandth nearest the exact value of t,   *)
(* the even one at a tie, as the decimal digits of the thousandths.        *)
(***************************************************************************)
TNaN == [cls |-> "nan", sign |-> 0, thousandths |-> <<>>]
TInf(sign) == [cls |-> "inf", sign |-> sign, thousandths |-> <<>>]
TFinite(sign, digits) ==
    [cls |-> "finite", sign |-> IF Len(digits) = 0 THEN 0 ELSE sign,
     thousandths |-> digits]

RoundedStatistic(t) ==
    IF t.cls = "nan" THEN TNaN
    ELSE IF t.cls = "inf" THEN TInf(t.sign)
    ELSE TFinite(t.sign, BigToDecimal(FlRoundScaled(t, 1000)))

(***************************************************************************)
(* round(float(pval), 4): the ten-thousandth nearest the p-value, as the   *)
(* number of ten-thousandths, 0 to 10000.                                  *)
(***************************************************************************)
PRoundedNaN == [cls |-> "nan", tenthousandths |-> 0]
PRounded(n) == [cls |-> "finite", tenthousandths |-> n]

RoundedPValue(pval) ==
    IF pval.cls = "nan" THEN PRoundedNaN
    ELSE PRounded(FlNearestScaled(pval, 10000))

\* the float64 0.05
ALPHA == FlDiv(FlFromInt(5), FlFromInt(100))

\* pval < 0.05; a NaN compares False
BelowAlpha(pval) == pval.cls = "finite" /\ FlCmp(pval, ALPHA) < 0

\* "Yes" if pval < 0.05 else "No"
Significant(pval) == IF BelowAlpha(pval) THEN "Yes" ELSE "No"

\* The row that reports the magnitude of the statistic
StatRow_magnitude(p, yes_vals, no_vals, test) ==
    [Population |-> LABELS2TXT[p],
     Responders_n |-> Len(yes_vals),
     Non_Responders_n |-> Len(no_vals),
     Mean_Responders |-> RoundedMean(yes_vals),
     Mean_Non_Responders |-> RoundedMean(no_vals),
     t_statistic |-> RoundedStatistic(FlAbs(test.statistic)),
     p_value |-> RoundedPValue(test.pvalue),
     Significant |-> Significant(test.pvalue)]

\* One row of stat_df, test the result of stats.ttest_ind
StatRow(p, yes_vals, no_vals, test) ==
    [Population |-> LABELS2TXT[p],
     Responders_n |-> Len(yes_vals),
     Non_Responders_n |-> Len(no_vals),
     Mean_Responders |-> RoundedMean(yes_vals),
     Mean_Non_Responders |-> RoundedMean(no_vals),
     t_statistic |-> RoundedStatistic(test.statistic),
     p_value |-> RoundedPValue(test.pvalue),
     Significant |-> Significant(test.pvalue)]

StatRowOn(p, yes_vals, no_vals) ==
    StatRow(p, yes_vals, no_vals, ttest_ind(yes_vals, no_vals))

\* The body of the loop over POPULATIONS
StatRowFor(raw, p) ==
    StatRowOn(p, GroupValues(raw, "yes", p), GroupValues(raw, "no", p))

build_stat_data_stat(store) ==
    LET raw == CohortQuery(store) IN
    [n \in 1..Len(POPULATIONS) |-> StatRowFor(raw, POPULATIONS[n])]

(***************************************************************************)
(* PART 4: build_subset_data                                               *)
(***************************************************************************)
InBaseline(r) ==
    /\ r.su.condition = "melanoma"
    /\ r.su.treatment = "miraclib"
    /\ r.s.sample_type = "PBMC"
    /\ r.s.time_from_treatment_start = 0

BaselineRow(r) ==
    [sample_id |-> r.s.sample_id, subject_id |-> r.su.subject_id,
     project_id |-> r.su.project_id, response |-> r.su.response,
     sex |-> r.su.sex]

BaselineQuery(store) ==
    LET found == SelectSeq(JoinSamplesSubjects(store), InBaseline)
    IN [n \in 1..Len(found) |-> BaselineRow(found[n])]

\* df.drop_duplicates("subject_id"): the first row of each subject is kept
RECURSIVE DropDuplicateSubjects(_, _)
DropDuplicateSubjects(df, seen) ==
    IF Len(df) = 0 THEN <<>>
    ELSE IF Head(df).subject_id \in seen
         THEN DropDuplicateSubjects(Tail(df), seen)
         ELSE <<Head(df)>> \o
              DropDuplicateSubjects(Tail(df), seen \cup {Head(df).subject_id})

\* The texts of the model in ascending order, as sort=True orders the keys
SortedProjects == <<"p1", "p2">>
SortedResponses == <<"no", "yes">>
SortedSexes == <<"F", "M">>

\* groupby(column, sort=True).size(): one row per value found in the
\* column, in the order of the keys; rows whose value is NULL belong to no
\* group (dropna)
RECURSIVE GroupSizes(_, _)
GroupSizes(column, keys) ==
    IF Len(keys) = 0 THEN <<>>
    ELSE LET k == Head(keys)
             Has(v) == v = k
             n == Len(SelectSeq(column, Has))
         IN (IF n > 0 THEN <<[key |-> k, size |-> n]>> ELSE <<>>)
            \o GroupSizes(column, Tail(keys))

Relabel(groups, labels) ==
    [n \in 1..Len(groups) |->
        [groups[n] EXCEPT !.key = MapLabel(labels, groups[n].key)]]

build_subset_data(store) ==
    LET df == BaselineQuery(store)
        subj == DropDuplicateSubjects(df, {})
        project_id == [n \in 1..Len(df) |-> df[n].project_id]
        response == [n \in 1..Len(subj) |-> subj[n].response]
        sex == [n \in 1..Len(subj) |-> subj[n].sex]
    IN [samples_per_project |-> GroupSizes(project_id, SortedProjects),
        subjects_by_response |->
            Relabel(GroupSizes(response, SortedResponses),
                    "yes" :> "Responder" @@ "no" :> "Non-Responder"),
        subjects_by_sex |->
            Relabel(GroupSizes(sex, SortedSexes),
                    "M" :> "Male" @@ "F" :> "Female"),
        n_samples |-> Len(df),
        n_subjects |-> Len(subj)]

(***************************************************************************)
(* The callback update_freq_table                                          *)
(***************************************************************************)
ALL == "__all__"

DisplayRow(r) ==
    [sample |-> r.sample, population |-> r.population,
     total_count |-> r.total_count, count |-> r.count,
     percentage |-> r.percentage]

\* Series.nunique(): the number of distinct values, None not counted
nunique(column) ==
    Cardinality({column[k] : k \in 1..Len(column)} \ {NULL})

\* The callback without the selection on sample_type
update_freq_table_skips_one(df0, project, condition, treatment, sample_type, population) ==
    LET ByProject(r) == r.project = project
        ByCondition(r) == r.condition = condition
        ByTreatment(r) == r.treatment = treatment
        BySampleType(r) == r.sample_type = sample_type
        ByPopulation(r) == r.population = population
        df1 == IF project # ALL THEN SelectSeq(df0, ByProject) ELSE df0
        df2 == IF condition # ALL THEN SelectSeq(df1, ByCondition) ELSE df1
        df3 == IF treatment # ALL THEN SelectSeq(df2, ByTreatment) ELSE df2
        df4 == df3
        df5 == IF population # ALL THEN SelectSeq(df4, ByPopulation) ELSE df4
        display == [n \in 1..Len(df5) |-> DisplayRow(df5[n])]
    IN [data |-> display,
        info |-> [rows |-> Len(display),
                  samples |-> nunique([k \in 1..Len(display) |-> display[k].sample])]]

update_freq_table(df0, project, condition, treatment, sample_type, population) ==
    LET ByProject(r) == r.project = project
        ByCondition(r) == r.condition = condition
        ByTreatment(r) == r.treatment = treatment
        BySampleType(r) == r.sample_type = sample_type
        ByPopulation(r) == r.population = population
        df1 == IF project # ALL THEN SelectSeq(df0, ByProject) ELSE df0
        df2 == IF condition # ALL THEN SelectSeq(df1, ByCondition) ELSE df1
        df3 == IF treatment # ALL THEN SelectSeq(df2, ByTreatment) ELSE df2
        df4 == IF sample_type # ALL THEN SelectSeq(df3, BySampleType) ELSE df3
        df5 == IF population # ALL THEN SelectSeq(df4, ByPopulation) ELSE df4
        display == [n \in 1..Len(df5) |-> DisplayRow(df5[n])]
    IN [data |-> display,
        info |-> [rows |-> Len(display),
                  samples |-> nunique([k \in 1..Len(display) |-> display[k].sample])]]

\* The values a dropdown can send: the sentinel or one of its options
FilterProjects == {ALL, "p1"}
FilterConditions == {ALL, "melanoma"}
FilterTreatments == {ALL, "miraclib"}
FilterSampleTypes == {ALL, "PBMC"}
FilterPopulations == {ALL, "b_cell", "monocyte"}

NoRequest ==
    [project |-> "", condition |-> "", treatment |-> "", sample_type |-> "",
     population |-> ""]
NoReply == [data |-> <<>>, info |-> [rows |-> 0, samples |-> 0]]
NoSubset ==
    [samples_per_project |-> <<>>, subjects_by_response |-> <<>>,
     subjects_by_sex |-> <<>>, n_samples |-> 0, n_subjects |-> 0]

(***************************************************************************)
\* os.remove of main: the old store file is gone
os_remove(file) == Absent

\* sqlite3.connect creates the file it does not find
connect(file) == IF file.exists THEN file ELSE EmptyFile

\* CREATE TABLE IF NOT EXISTS, twice, on the connected file
init_db(file) == IF connect(file).tables THEN file ELSE EmptyStore

\* A file has one header, so the lines that are one field short all miss
\* the same column
OneHeader(file) ==
    \/ \A k \in 1..Len(file) : file[k].project # NULL
    \/ \A k \in 1..Len(file) : file[k].sample # NULL

\* The file main finds on its next run: unchanged, one row longer, one row
\* shorter, or empty.
NextInputs(file) ==
    {f \in {file, <<>>}
            \cup (IF Len(file) > 0
                  THEN {SubSeq(file, 1, Len(file) - 1)} ELSE {})
            \cup (IF Len(file) < MaxRows
                  THEN {Append(file, r) : r \in Rows} ELSE {}) :
        OneHeader(f)}

Init ==
    /\ csv = <<>>
    /\ pc = "idle"
    /\ i = 1
    /\ subjects_seen = {}
    /\ subjects = <<>>
    /\ samples = <<>>
    /\ db = Absent
    /\ reported = FALSE
    /\ rerun = NoRerun
    /\ app = "down"
    /\ queries = 0
    /\ calls = 0
    /\ freq_df = <<>>
    /\ part3_plot_df = <<>>
    /\ part3_stat_df = <<>>
    /\ subset = NoSubset
    /\ request = NoRequest
    /\ reply = NoReply

\* main up to the call of load_csv
MainStart ==
    /\ pc \in {"idle", "done", "aborted"}
    /\ app = "down"
    /\ \E file \in NextInputs(csv) :
         /\ csv' = file
         /\ rerun' = IF pc = "done" /\ file = csv THEN db ELSE NoRerun
    /\ LET created == init_db(os_remove(db)) IN
         /\ db' = created
         /\ subjects' = created.subjects
         /\ samples' = created.samples
    /\ subjects_seen' = {}
    /\ i' = 1
    /\ reported' = FALSE
    /\ pc' = "load"
    /\ UNCHANGED <<app, queries, calls, cache, request, reply>>

\* one iteration of the loop of load_csv that completes
LoadRow ==
    /\ pc = "load"
    /\ i <= Len(csv)
    /\ RowLoads(csv[i], subjects_seen)
    /\ LET row == csv[i] IN
         /\ subjects' = IF SubjectNeeded(row, subjects_seen)
                        THEN InsertOrIgnoreSubject(subjects, SubjectRecord(row))
                        ELSE subjects
         /\ subjects_seen' = subjects_seen \cup {row.subject}
         /\ samples' = InsertOrIgnoreSample(samples, SampleRecord(row))
    /\ i' = i + 1
    /\ UNCHANGED <<csv, pc, db, reported, rerun, app, queries, calls, cache, request, reply>>

\* The failing iteration in a connection that commits every statement
LoadRowFails_autocommit ==
    /\ pc = "load"
    /\ i <= Len(csv)
    /\ ~RowLoads(csv[i], subjects_seen)
    /\ pc' = "aborted"
    /\ db' = [exists |-> TRUE, tables |-> TRUE, subjects |-> subjects,
              samples |-> samples]
    /\ UNCHANGED <<csv, i, subjects_seen, subjects, samples, reported, rerun, app, queries, calls, cache, request, reply>>

\* one iteration that raises, in int() or in cursor.execute: the exception
\* leaves load_csv and main; conn.close() in the finally clause drops the
\* open transaction
LoadRowFails ==
    /\ pc = "load"
    /\ i <= Len(csv)
    /\ ~RowLoads(csv[i], subjects_seen)
    /\ pc' = "aborted"
    /\ subjects' = db.subjects
    /\ samples' = db.samples
    /\ UNCHANGED <<csv, i, subjects_seen, db, reported, rerun, app, queries, calls, cache, request, reply>>

\* the end of the file: conn.commit(), the success message, conn.close()
Commit ==
    /\ pc = "load"
    /\ i > Len(csv)
    /\ db' = [exists |-> TRUE, tables |-> TRUE, subjects |-> subjects,
              samples |-> samples]
    /\ reported' = TRUE
    /\ pc' = "done"
    /\ UNCHANGED <<csv, i, subjects_seen, subjects, samples, rerun, app, queries, calls, cache, request, reply>>

\* app.py is started on a store that ingestion has written: the three
\* queries run and their results are kept
Startup ==
    /\ app = "down"
    /\ pc \in {"done", "aborted"}
    /\ app' = "up"
    /\ queries' = 3
    /\ calls' = 0
    /\ freq_df' = build_frequency_df(db)
    /\ part3_plot_df' = build_stat_data_plot(db)
    /\ part3_stat_df' = build_stat_data_stat(db)
    /\ subset' = build_subset_data(db)
    /\ request' = NoRequest
    /\ reply' = NoReply
    /\ UNCHANGED loader

\* app.py is started before any ingestion run: query connects, which
\* leaves an empty store file where there was none, and read_sql_query
\* raises because the file has no samples table
StartupFails ==
    /\ app = "down"
    /\ pc = "idle"
    /\ ~connect(db).tables
    /\ db' = connect(db)
    /\ app' = "failed"
    /\ queries' = 1
    /\ UNCHANGED <<csv, pc, i, subjects_seen, subjects, samples, reported, rerun, calls, cache, request, reply>>

\* The callback reading the frequency view from the store on every call
UpdateFreqTable_requeries ==
    /\ app = "up"
    /\ calls < MaxCalls
    /\ \E project \in FilterProjects, condition \in FilterConditions,
          treatment \in FilterTreatments, sample_type \in FilterSampleTypes,
          population \in FilterPopulations :
         /\ request' = [project |-> project, condition |-> condition,
                        treatment |-> treatment, sample_type |-> sample_type,
                        population |-> population]
         /\ reply' = update_freq_table(build_frequency_df(db), project,
                                       condition, treatment, sample_type,
                                       population)
    /\ freq_df' = build_frequency_df(db)
    /\ queries' = queries + 1
    /\ app' = "replied"
    /\ calls' = calls + 1
    /\ UNCHANGED <<loader, part3_plot_df, part3_stat_df, subset>>

\* a change of one of the five dropdowns: Dash calls update_freq_table
UpdateFreqTable ==
    /\ app = "up"
    /\ calls < MaxCalls
    /\ \E project \in FilterProjects, condition \in FilterConditions,
          treatment \in FilterTreatments, sample_type \in FilterSampleTypes,
          population \in FilterPopulations :
         /\ request' = [project |-> project, condition |-> condition,
                        treatment |-> treatment, sample_type |-> sample_type,
                        population |-> population]
         /\ reply' = update_freq_table(freq_df, project, condition, treatment,
                                       sample_type, population)
    /\ app' = "replied"
    /\ calls' = calls + 1
    /\ UNCHANGED <<loader, queries, cache>>

\* Dash sends what the callback returned to the browser
Deliver ==
    /\ app = "replied"
    /\ app' = "up"
    /\ request' = NoRequest
    /\ reply' = NoReply
    /\ UNCHANGED <<loader, queries, calls, cache>>

\* the analysis process ends
Shutdown ==
    /\ app \in {"up", "replied", "failed"}
    /\ app' = "down"
    /\ queries' = 0
    /\ calls' = 0
    /\ freq_df' = <<>>
    /\ part3_plot_df' = <<>>
    /\ part3_stat_df' = <<>>
    /\ subset' = NoSubset
    /\ request' = NoRequest
    /\ reply' = NoReply
    /\ UNCHANGED loader

Next ==
    \/ MainStart
    \/ LoadRow
    \/ LoadRowFails
    \/ Commit
    \/ Startup
    \/ StartupFails
    \/ UpdateFreqTable
    \/ Deliver
    \/ Shutdown

Spec == Init /\ [][Next]_vars

(***************************************************************************)
(* The statistics of build_stat_data need two samples in each group of     *)
(* the cohort.  SpecStat runs main once on a file of three to MaxStatRows  *)
(* rows of cohort samples of the subjects s1 and s2, and then starts       *)
(* app.py.  The samples of a subject carry, in file order, the count       *)
(* profiles of one of the sequences of StatGroups.  The filter callback    *)
(* does not touch the statistics and is left out.                          *)
(***************************************************************************)
CountsC == <<<<"5", "2">>, <<"1", "8">>, <<"1", "0">>, <<"1", "0">>, <<"1", "0">>>>
CountsD == <<<<"6", "0">>, <<"1", "0">>, <<"1", "0">>, <<"1", "0">>, <<"1", "0">>>>
CountsE == <<<<"6", "1">>, <<"9">>, <<"1", "0">>, <<"1", "0">>, <<"1", "0">>>>
CountsF == <<<<"2">>, <<"4", "8">>, <<"3", "0">>, <<"1", "0">>, <<"1", "0">>>>
CountsG == <<<<"9">>, <<"4", "1">>, <<"3", "0">>, <<"1", "0">>, <<"1", "0">>>>
StatGroups ==
    {<<CountsA, CountsC, CountsA>>, <<CountsD, CountsE, CountsD>>,
     <<CountsA, CountsD, CountsE>>, <<CountsA, CountsA, CountsA>>,
     <<CountsOdd, CountsOdd, CountsOdd>>, <<CountsZero, CountsA, CountsC>>,
     <<CountsF, CountsG, CountsF>>}

CohortRow(subject, sample, response, counts) ==
    MkRow("p1", subject, sample, "melanoma", <<"3", "0">>, "M", "miraclib",
          response, "PBMC", <<"0">>, counts)

\* the subject and sample keys of the rows of a file, in file order
StatKeys ==
    <<<<"s1", "a1">>, <<"s1", "a2">>, <<"s2", "a3">>, <<"s2", "a4">>,
      <<"s2", "a5">>, <<"s1", "a6">>, <<"s1", "a7">>, <<"s2", "a8">>>>

\* the number of rows of the subject of row k among the rows 1..k
StatRank(k) ==
    Cardinality({j \in 1..k : StatKeys[j][1] = StatKeys[k][1]})

\* the file of n rows with response r1 and count profiles g1 for s1,
\* r2 and g2 for s2
StatFile(n, r1, r2, g1, g2) ==
    [k \in 1..n |->
        LET g == IF StatKeys[k][1] = "s1" THEN g1 ELSE g2 IN
        CohortRow(StatKeys[k][1], StatKeys[k][2],
                  IF StatKeys[k][1] = "s1" THEN r1 ELSE r2,
                  g[((StatRank(k) - 1) % Len(g)) + 1])]

\* the first run of main, on one of these files
MainStartStat ==
    /\ pc = "idle"
    /\ app = "down"
    /\ \E n \in 3..MaxStatRows, r1 \in Responses, r2 \in {"yes", "no"} :
         \E g1 \in StatGroups, g2 \in StatGroups :
             csv' = StatFile(n, r1, r2, g1, g2)
    /\ rerun' = NoRerun
    /\ LET created == init_db(os_remove(db)) IN
         /\ db' = created
         /\ subjects' = created.subjects
         /\ samples' = created.samples
    /\ subjects_seen' = {}
    /\ i' = 1
    /\ reported' = FALSE
    /\ pc' = "load"
    /\ UNCHANGED <<app, queries, calls, cache, request, reply>>

NextStat ==
    \/ MainStartStat
    \/ LoadRow
    \/ Commit
    \/ Startup
    \/ StartupFails
    \/ Shutdown

SpecStat == Init /\ [][NextStat]_vars

(***************************************************************************)
(* Helpers of the properties.                                              *)
(***************************************************************************)
AppUp == app \in {"up", "replied"}

RECURSIVE SumSizes(_)
SumSizes(groups) ==
    IF Len(groups) = 0 THEN 0 ELSE Head(groups).size + SumSizes(Tail(groups))

RowIndexes == 1..Len(csv)

\* the first row of the file that names subject su, sample sa
FirstOfSubject(k) == \A j \in 1..(k - 1) : csv[j].subject # csv[k].subject
FirstOfSample(k) == \A j \in 1..(k - 1) : csv[j].sample # csv[k].sample

NoDuplicateKeys(store) ==
    /\ Cardinality(SubjectKeysOf(store.subjects)) = Len(store.subjects)
    /\ Cardinality(SampleKeysOf(store.samples)) = Len(store.samples)

(***************************************************************************)
(* C1: a run of main that repeats the previous run's input leaves the      *)
(* same subjects and samples tables, without duplicate keys; and after any *)
(* sequence of runs every stored row is the record of a row of the last    *)
(* run's file, whatever the store held before.                             *)
(***************************************************************************)
C1_RerunLeavesSameStore ==
    pc = "done" =>
        /\ rerun.exists => db = rerun
        /\ NoDuplicateKeys(db)
        /\ \A n \in 1..Len(db.subjects) :
              \E k \in RowIndexes :
                 FirstOfSubject(k) /\ db.subjects[n] = SubjectRecord(csv[k])
        /\ \A n \in 1..Len(db.samples) :
              \E k \in RowIndexes : db.samples[n] = SampleRecord(csv[k])

(***************************************************************************)
(* C2: in the results of build_subset_data the Subject Count values of     *)
(* subjects_by_response add up to n_subjects, and so do those of           *)
(* subjects_by_sex, also when a baseline subject has a NULL response.      *)
(***************************************************************************)
C2_SubjectCountsSumToSubjects ==
    AppUp =>
        /\ SumSizes(subset.subjects_by_response) = subset.n_subjects
        /\ SumSizes(subset.subjects_by_sex) = subset.n_subjects

(***************************************************************************)
(* C3: the Sample Count values of samples_per_project add up to n_samples, *)
(* and n_samples is the number of stored samples that are PBMC, taken at   *)
(* time 0, of a stored melanoma subject treated with miraclib.             *)
(***************************************************************************)
BaselineSamples ==
    {m \in 1..Len(db.samples) :
        /\ db.samples[m].sample_type = "PBMC"
        /\ db.samples[m].time_from_treatment_start = 0
        /\ \E j \in 1..Len(db.subjects) :
              /\ db.subjects[j].subject_id = db.samples[m].subject_id
              /\ db.subjects[j].condition = "melanoma"
              /\ db.subjects[j].treatment = "miraclib"}

C3_SampleCountsSumToSamples ==
    AppUp =>
        /\ SumSizes(subset.samples_per_project) = subset.n_samples
        /\ subset.n_samples = Cardinality(BaselineSamples)

C3_Witness ==
    /\ AppUp
    /\ Len(subset.samples_per_project) = 2
    /\ subset.n_samples = 2

(***************************************************************************)
(* C4: on every row of the frequency view with total_count > 0 the         *)
(* percentage is count / total_count * 100 rounded to two decimals: a      *)
(* number of hundredths that no other is nearer to the ratio (where the    *)
(* ratio lies halfway between two hundredths, float64 arithmetic picks     *)
(* one of the two); with total_count = 0 it is no number (NaN, or an       *)
(* infinity when count is not 0), never zero; two rows with the same       *)
(* count : total_count ratio carry the same percentage, and count 50 of    *)
(* total 100 gives 50.00.                                                  *)
(***************************************************************************)
NearestHundredth(h, count, total) ==
    2 * Abs(h * total - count * 10000) <= total

C4_PercentageIsRoundedRatio ==
    AppUp =>
        /\ \A n \in 1..Len(freq_df) :
              LET r == freq_df[n] IN
                /\ r.total_count > 0 =>
                      /\ r.percentage.cls = "finite"
                      /\ NearestHundredth(r.percentage.hundredths, r.count,
                                          r.total_count)
                /\ r.total_count = 0 => r.percentage.cls # "finite"
                /\ (r.count = 50 /\ r.total_count = 100) =>
                      r.percentage = Finite(5000)
        /\ \A n, m \in 1..Len(freq_df) :
              (/\ freq_df[n].total_count > 0
               /\ freq_df[m].total_count > 0
               /\ freq_df[n].count * freq_df[m].total_count
                    = freq_df[m].count * freq_df[n].total_count)
              => freq_df[n].percentage = freq_df[m].percentage

C4_Witness ==
    /\ AppUp
    /\ \E n \in 1..Len(freq_df) :
          freq_df[n].total_count = 0 /\ freq_df[n].percentage = NaN
    /\ \E n \in 1..Len(freq_df) :
          /\ freq_df[n].total_count = 160
          /\ freq_df[n].count = 23
          /\ freq_df[n].percentage = Finite(1437)
    /\ \E n \in 1..Len(freq_df) :
          /\ freq_df[n].total_count = 160
          /\ freq_df[n].count = 49
          /\ freq_df[n].percentage = Finite(3063)

(***************************************************************************)
(* C5: every row of the cohort comparison view belongs to a stored PBMC    *)
(* sample whose subject is stored with condition melanoma, treatment       *)
(* miraclib and a response that is not NULL; a subject whose first row in  *)
(* the file has an empty response is stored with a NULL response and has   *)
(* no sample in the view; the two groups of the t-test hold the stored      *)
(* cohort samples of the subjects with response yes and with response no.  *)
(***************************************************************************)
PlotSampleIds == {part3_plot_df[n].sample_id : n \in 1..Len(part3_plot_df)}

StoredCohortSamples(label) ==
    {m \in 1..Len(db.samples) :
        /\ db.samples[m].sample_type = "PBMC"
        /\ \E j \in 1..Len(db.subjects) :
              /\ db.subjects[j].subject_id = db.samples[m].subject_id
              /\ db.subjects[j].condition = "melanoma"
              /\ db.subjects[j].treatment = "miraclib"
              /\ db.subjects[j].response = label}

C5_CohortViewOnlyCohortRows ==
    AppUp =>
        /\ \A n \in 1..Len(part3_plot_df) :
              \E m \in 1..Len(db.samples), j \in 1..Len(db.subjects) :
                 /\ db.samples[m].sample_id = part3_plot_df[n].sample_id
                 /\ db.samples[m].sample_type = "PBMC"
                 /\ db.subjects[j].subject_id = db.samples[m].subject_id
                 /\ db.subjects[j].condition = "melanoma"
                 /\ db.subjects[j].treatment = "miraclib"
                 /\ db.subjects[j].response # NULL
                 /\ db.subjects[j].response = part3_plot_df[n].response
        /\ \A n \in 1..Len(part3_stat_df) :
              /\ part3_stat_df[n].Responders_n
                    = Cardinality(StoredCohortSamples("yes"))
              /\ part3_stat_df[n].Non_Responders_n
                    = Cardinality(StoredCohortSamples("no"))
        /\ pc = "done" =>
              \A k \in RowIndexes :
                 (FirstOfSubject(k) /\ csv[k].response = "") =>
                    /\ \A j \in 1..Len(db.subjects) :
                          db.subjects[j].subject_id = csv[k].subject
                              => db.subjects[j].response = NULL
                    /\ \A m \in 1..Len(db.samples) :
                          db.samples[m].subject_id = csv[k].subject
                              => db.samples[m].sample_id \notin PlotSampleIds

C5_Witness ==
    /\ AppUp
    /\ Len(part3_plot_df) > 0
    /\ \E j \in 1..Len(db.subjects), m \in 1..Len(db.samples) :
          /\ db.subjects[j].response = NULL
          /\ db.samples[m].subject_id = db.subjects[j].subject_id
          /\ db.samples[m].sample_type = "PBMC"

(***************************************************************************)
(* C6: at every point of a run of load_csv, and in the committed store,    *)
(* every row of samples has the subject_id of a row of subjects.           *)
(***************************************************************************)
Referential(store) ==
    \A n \in 1..Len(store.samples) :
        store.samples[n].subject_id \in SubjectKeysOf(store.subjects)

C6_NoSampleWithoutSubject ==
    /\ Referential([subjects |-> subjects, samples |-> samples])
    /\ Referential(db)

(***************************************************************************)
(* C7: after a completed run every stored sample has five population       *)
(* counts that are not negative.                                           *)
(***************************************************************************)
C7_CountsNonNegative ==
    pc = "done" =>
        \A n \in 1..Len(db.samples) :
            \A q \in 1..Len(POPULATIONS) :
                CountOf(db.samples[n], POPULATIONS[q]) >= 0

(***************************************************************************)
(* C8: after a completed run the subjects table has exactly one row for    *)
(* each subject key of the file and the samples table exactly one row for  *)
(* each sample key, each holding the values of the first row of the file   *)
(* with that key, an empty response stored as NULL.                        *)
(***************************************************************************)
C8_OneRowPerKeyFirstWins ==
    pc = "done" =>
        /\ NoDuplicateKeys(db)
        /\ SubjectKeysOf(db.subjects) = {csv[k].subject : k \in RowIndexes}
        /\ SampleKeysOf(db.samples) = {csv[k].sample : k \in RowIndexes}
        /\ \A k \in RowIndexes :
              /\ FirstOfSubject(k) =>
                    \E n \in 1..Len(db.subjects) :
                       /\ db.subjects[n] = SubjectRecord(csv[k])
                       /\ csv[k].response = "" => db.subjects[n].response = NULL
              /\ FirstOfSample(k) =>
                    \E n \in 1..Len(db.samples) :
                       db.samples[n] = SampleRecord(csv[k])

(***************************************************************************)
(* C9: load_csv does not get past a row that has a non-numeric text in     *)
(* age, time_from_treatment_start or one of the five counts: no row after  *)
(* it is read and the run does not report success.                         *)
(***************************************************************************)
AllNumeric(row) == SubjectParses(row) /\ SampleParses(row)

C9_NonNumericAborts ==
    /\ pc = "load" => \A k \in 1..(i - 1) : AllNumeric(csv[k])
    /\ reported => \A k \in RowIndexes : AllNumeric(csv[k])

(***************************************************************************)
(* C10: update_freq_table returns, in the order of the frequency table,    *)
(* exactly its rows that equal every filter value other than "__all__" in  *)
(* the filtered column; with five sentinels it returns every row.          *)
(***************************************************************************)
Passes(value, field) == value = ALL \/ field = value

MatchesRequest(r) ==
    /\ Passes(request.project, r.project)
    /\ Passes(request.condition, r.condition)
    /\ Passes(request.treatment, r.treatment)
    /\ Passes(request.sample_type, r.sample_type)
    /\ Passes(request.population, r.population)

MatchingIndexes == {n \in 1..Len(freq_df) : MatchesRequest(freq_df[n])}

C10_FilterIsConjunction ==
    app = "replied" =>
        /\ Len(reply.data) = Cardinality(MatchingIndexes)
        /\ \A n \in MatchingIndexes :
              reply.data[Cardinality({m \in MatchingIndexes : m <= n})]
                  = DisplayRow(freq_df[n])
        /\ reply.info.rows = Cardinality(MatchingIndexes)
        /\ (\A f \in {request.project, request.condition, request.treatment,
                      request.sample_type, request.population} : f = ALL)
              => Len(reply.data) = Len(freq_df)

C10_Witness ==
    /\ app = "replied"
    /\ request.treatment # ALL
    /\ request.sample_type # ALL
    /\ request.project = ALL
    /\ Len(reply.data) > 0
    /\ Len(reply.data) < Len(freq_df)
    /\ \E n \in 1..Len(freq_df) :
          /\ freq_df[n].treatment = request.treatment
          /\ freq_df[n].sample_type # request.sample_type

(***************************************************************************)
(* C11: for every sample in the frequency view, total_count on each of its *)
(* rows is the sum of the five population counts the store holds for that  *)
(* sample, and the count values of the sample's rows add up to that        *)
(* total_count.                                                            *)
(***************************************************************************)
ReturnedSamples ==
    LET Joined(x) == \E j \in 1..Len(db.subjects) :
                        db.subjects[j].subject_id = x.subject_id
    IN SelectSeq(db.samples, Joined)

\* The counts on the five rows of the sample at position j of n samples
SumCountsOfSample(j, n) ==
    freq_df[j].count + freq_df[n + j].count + freq_df[2 * n + j].count
      + freq_df[3 * n + j].count + freq_df[4 * n + j].count

C11_TotalIsSumOfCounts ==
    AppUp =>
        LET found == ReturnedSamples
            n == Len(found)
        IN /\ Len(freq_df) = 5 * n
           /\ \A r \in 1..Len(freq_df) :
                 LET j == ((r - 1) % n) + 1 IN
                 /\ freq_df[r].sample = found[j].sample_id
                 /\ freq_df[r].total_count
                       = found[j].b_cell + found[j].cd8_t_cell
                         + found[j].cd4_t_cell + found[j].nk_cell
                         + found[j].monocyte
                 /\ SumCountsOfSample(j, n) = freq_df[r].total_count

C11_Witness ==
    /\ AppUp
    /\ \E n, m \in 1..Len(freq_df) :
          /\ freq_df[n].sample # freq_df[m].sample
          /\ freq_df[n].total_count = 15
          /\ freq_df[n].population = "monocyte"
          /\ freq_df[n].count = 5
          /\ freq_df[m].total_count = 100

(***************************************************************************)
(* C13: the frequency view has exactly one row for each stored sample and  *)
(* each of the five populations, so five rows per stored sample and no     *)
(* stored sample left out, and each row carries the project, condition     *)
(* and treatment of the stored subject of its sample.                      *)
(***************************************************************************)
FrequencyRowsOf(sample, population) ==
    {n \in 1..Len(freq_df) :
        freq_df[n].sample = sample /\ freq_df[n].population = population}

C13_OneRowPerSamplePopulation ==
    AppUp =>
        /\ Len(freq_df) = 5 * Len(db.samples)
        /\ \A m \in 1..Len(db.samples) :
              \A q \in 1..Len(POPULATIONS) :
                 Cardinality(FrequencyRowsOf(db.samples[m].sample_id,
                                             POPULATIONS[q])) = 1
        /\ \A n \in 1..Len(freq_df) :
              \E m \in 1..Len(db.samples), j \in 1..Len(db.subjects) :
                 /\ db.samples[m].sample_id = freq_df[n].sample
                 /\ db.subjects[j].subject_id = db.samples[m].subject_id
                 /\ freq_df[n].project = db.subjects[j].project_id
                 /\ freq_df[n].condition = db.subjects[j].condition
                 /\ freq_df[n].treatment = db.subjects[j].treatment

(***************************************************************************)
(* C16: load_csv commits once, after the last row.  While rows are being   *)
(* read the committed store is the two empty tables of init_db, and after  *)
(* a run that aborted on some row it still is: an analysis run started     *)
(* then sees no sample and no subject, whatever was inserted before the    *)
(* failing row.                                                            *)
(***************************************************************************)
C16_AbortLeavesEmptyStore ==
    /\ pc \in {"load", "aborted"} => db = EmptyStore
    /\ (pc = "aborted" /\ AppUp) =>
          /\ freq_df = <<>>
          /\ part3_plot_df = <<>>
          /\ subset.n_samples = 0
          /\ subset.n_subjects = 0
          /\ \A n \in 1..Len(part3_stat_df) :
                /\ part3_stat_df[n].Responders_n = 0
                /\ part3_stat_df[n].Non_Responders_n = 0

C16_Witness ==
    /\ pc = "aborted"
    /\ AppUp
    /\ i = 2
    /\ subjects_seen # {}
    /\ AllNumeric(csv[1])
    /\ csv[1].project # NULL
    /\ csv[1].sample_type = "PBMC"
    /\ csv[1].response = "yes"
    /\ db = EmptyStore

(***************************************************************************)
(* C14: while the analysis process serves requests, query() has been       *)
(* called three times, all at startup; a call of update_freq_table makes   *)
(* no further query, leaves the store and the four cached results as they  *)
(* were, and returns the rows of the cached frequency table that match     *)
(* its own filter values, whatever calls were served before.               *)
(***************************************************************************)
ServesRequest == app = "up" /\ app' = "replied"

C14_QueriesOnceThenCached ==
    /\ [](AppUp => queries = 3)
    /\ [][ServesRequest =>
            /\ queries' = queries
            /\ UNCHANGED <<db, cache>>
            /\ Len(reply'.data) = Cardinality(MatchingIndexes')
            /\ \A n \in MatchingIndexes' :
                  reply'.data[Cardinality({m \in MatchingIndexes' : m <= n})]
                      = DisplayRow(freq_df[n])]_vars

C14_Witness ==
    /\ app = "replied"
    /\ calls = 2
    /\ queries = 3
    /\ request.population # ALL
    /\ Len(reply.data) > 0
    /\ Len(reply.data) < Len(freq_df)

(***************************************************************************)
(* C12: for each population, the row that build_stat_data computes from    *)
(* the cohort with the responses yes and no exchanged reports the          *)
(* t-statistic of the reported row with the opposite sign and the same     *)
(* magnitude, the same p-value and the same significance flag, and the     *)
(* group sizes and means of the reported row exchanged.                    *)
(***************************************************************************)
Negated(t) == [t EXCEPT !.sign = 0 - t.sign]

SwapResponse(r) ==
    [r EXCEPT !.su.response =
        IF @ = "yes" THEN "no" ELSE IF @ = "no" THEN "yes" ELSE @]

\* the rows of the cohort query with the two responses exchanged
SwapGroups(raw) == [k \in 1..Len(raw) |-> SwapResponse(raw[k])]

C12_SwapNegatesStatistic ==
    AppUp =>
        \A n \in 1..Len(part3_stat_df) :
            LET row == part3_stat_df[n]
                swapped == StatRowFor(SwapGroups(CohortQuery(db)),
                                      POPULATIONS[n])
            IN /\ swapped.t_statistic = Negated(row.t_statistic)
               /\ swapped.p_value = row.p_value
               /\ swapped.Significant = row.Significant
               /\ swapped.Responders_n = row.Non_Responders_n
               /\ swapped.Non_Responders_n = row.Responders_n
               /\ swapped.Mean_Responders = row.Mean_Non_Responders
               /\ swapped.Mean_Non_Responders = row.Mean_Responders

C12_Witness ==
    /\ AppUp
    /\ \E n \in 1..Len(part3_stat_df) :
          /\ part3_stat_df[n].Responders_n = 2
          /\ part3_stat_df[n].Non_Responders_n = 2
          /\ part3_stat_df[n].t_statistic = TFinite(0 - 1, <<8, 4, 9, 7>>)
          /\ part3_stat_df[n].p_value = PRounded(317)
          /\ part3_stat_df[n].Significant = "Yes"
    /\ \E n \in 1..Len(part3_stat_df) :
          /\ part3_stat_df[n].t_statistic.cls = "finite"
          /\ part3_stat_df[n].t_statistic.sign = 1

(***************************************************************************)
(* C15: build_stat_data returns one row for each of the five populations,  *)
(* with the sizes of the two stored response groups of the cohort; when    *)
(* one of the groups has fewer than two observations the t-statistic and   *)
(* the p-value of every row are NaN and its flag is "No"; on every row     *)
(* the flag is "Yes" exactly when the p-value of the row is a number       *)
(* below 0.05.                                                             *)
(***************************************************************************)
C15_DegenerateGroupsGiveNaN ==
    AppUp =>
        /\ Len(part3_stat_df) = Len(POPULATIONS)
        /\ \A n \in 1..Len(part3_stat_df) :
              LET row == part3_stat_df[n] IN
                /\ row.Population = LABELS2TXT[POPULATIONS[n]]
                /\ row.Responders_n = Cardinality(StoredCohortSamples("yes"))
                /\ row.Non_Responders_n
                      = Cardinality(StoredCohortSamples("no"))
                /\ (row.Responders_n < 2 \/ row.Non_Responders_n < 2) =>
                      /\ row.t_statistic.cls = "nan"
                      /\ row.p_value.cls = "nan"
                      /\ row.Significant = "No"
                /\ row.Significant \in {"Yes", "No"}
                /\ row.Significant = "Yes" <=>
                      (/\ row.p_value.cls = "finite"
                       /\ row.p_value.tenthousandths < 500)

====
